---- MODULE Spec2Model ----
(***************************************************************************)
(* Model of the Streamlit chat application (streamlit_app.py) and of its   *)
(* helpers refine_question / get_invoice_answer (utils/llm_utils.py) and   *)
(* query_cortex_search_service (utils/search_utils.py).                    *)
(*                                                                         *)
(* Spec         : the application.  One script run of main() per UI event; *)
(*                st.session_state (messages, clear_conversation) and the  *)
(*                widget values persist between runs.                      *)
(* SpecGateway  : query_cortex_search_service applied, with all six of its *)
(*                parameters bound, to inputs drawn from bounded sets.     *)
(***************************************************************************)
EXTENDS Integers, Sequences, FiniteSets, TLC

VARIABLES
    messages,            \* st.session_state.messages
    clear_conversation,  \* st.session_state.clear_conversation (absent = FALSE)
    widgets,             \* values of the three sidebar widgets
    pc,                  \* position of the current script run ("rest" between runs)
    event,               \* the UI event that triggered the current script run
    rewritten_q,         \* local of main_chat_loop
    stages,              \* orchestrator stages the current run has entered
    exception,           \* uncaught exception that ended the current run
    notices,             \* st.error / st.warning / st.info shown by the current run
    completeCalls,       \* Complete(...) calls made by the current run
    completeFails,       \* completeFails[k]: the backend throws on the run's k-th Complete call
    gatewayCalls,        \* calls of query_cortex_search_service by main_chat_loop
    last_context_json,   \* st.session_state.last_context_json (Text(None) while absent)
    lenAtRunStart,       \* Len(messages) when the current run began
    gwIn,                \* SpecGateway: arguments of the call
    gwOut                \* SpecGateway: outcome of the call

vars == <<messages, clear_conversation, widgets, pc, event, rewritten_q, stages,
          exception, notices, completeCalls, completeFails, gatewayCalls, last_context_json,
          lenAtRunStart, gwIn, gwOut>>

appVars == <<messages, clear_conversation, widgets, pc, event, rewritten_q, stages,
             exception, notices, completeCalls, completeFails, gatewayCalls,
             last_context_json, lenAtRunStart>>

gwVars == <<gwIn, gwOut>>

-----------------------------------------------------------------------------
(* Bounds of the model *)

MaxTurns == 4      \* no question is submitted once messages holds this many Turns
MaxRows == 2       \* most records the search backend has for one query
MaxHistory == 3    \* largest "History turns" the user selects, besides the default

(* Program constants *)

ChunksMin == 1
ChunksMax == 10
ChunksDefault == 3
HistoryMin == 1
HistoryMax == 10
HistoryDefault == 5
RefineSkipBelow == 2

-----------------------------------------------------------------------------
(* Values *)

None == "<None>"

Min(a, b) == IF a < b THEN a ELSE b
Max(a, b) == IF a > b THEN a ELSE b

\* Python truthiness of a str-or-None value
Falsy(v) == v \in {None, ""}

Questions == {"q1", "q2"}

Turn(role, content) == [role |-> role, content |-> content]

\* Python s[i:]
PySliceFrom(s, i) ==
    LET start == IF i < 0 THEN Max(Len(s) + i, 0) ELSE Min(i, Len(s))
    IN  SubSeq(s, start + 1, Len(s))

\* messages[-n:]
TailSliceFirstN(s, n) == SubSeq(s, 1, Min(n, Len(s)))
TailSlice(s, n) == PySliceFrom(s, -n)

\* Text produced by the completion backend: a sequence of tokens, " " and "\n"
\* being whitespace.
Whitespace == {" ", "\n"}

RECURSIVE Join(_)
Join(toks) == IF toks = << >> THEN "" ELSE Head(toks) \o Join(Tail(toks))

RECURSIVE LStrip(_)
LStrip(toks) ==
    IF toks # << >> /\ Head(toks) \in Whitespace THEN LStrip(Tail(toks)) ELSE toks

RECURSIVE RStrip(_)
RStrip(toks) ==
    IF toks # << >> /\ toks[Len(toks)] \in Whitespace
    THEN RStrip(SubSeq(toks, 1, Len(toks) - 1))
    ELSE toks

\* str.strip()
Strip(toks) == Join(RStrip(LStrip(toks)))

\* Outcome of one Complete(...) call: generated text, or an exception
CompleteOk(toks) == [ok |-> TRUE, out |-> toks, err |-> ""]
CompleteFails(e) == [ok |-> FALSE, out |-> << >>, err |-> e]

RefineOutcomes ==
    {CompleteOk(<<" ", "How can I q?", "\n">>), CompleteOk(<<"q1">>),
     CompleteFails("backend down")}

AnswerOutcomes ==
    {CompleteOk(<<"- item", "\n">>), CompleteFails("backend down")}

-----------------------------------------------------------------------------
(* utils/llm_utils.py *)

MODEL == "claude-3-5-sonnet"
REFINE_MAX_TOKENS == 500
SUMMARY_MAX_TOKENS == 750

\* json.dumps(v): the text that encodes v
JsonDumps(v) == [json |-> v]
Text(s) == [text |-> s]
Section(tag, body) == [tag |-> tag, body |-> body]

BuildRefinePrompt(raw_question, chat_history) ==
    << Section("SYSTEM", Text("You are a query refiner.")),
       Section("HISTORY", chat_history),
       Section("ORIGINAL_QUESTION", Text(raw_question)) >>

BuildInvoicePrompt(context_json, question, chat_history) ==
    << Section("SYSTEM", Text("You are an invoice assistant.")),
       Section("CONTEXT", context_json) >>
    \o (IF chat_history # Text(None) THEN << Section("HISTORY", chat_history) >> ELSE << >>)
    \o << Section("QUESTION", Text(question)) >>

CompleteCall(caller, prompt, max_tokens) ==
    [caller |-> caller, model |-> MODEL, prompt |-> prompt,
     options |-> [temperature |-> 0, max_tokens |-> max_tokens]]

\* The body of section `tag` of a prompt (Text(None) when the prompt has none)
SectionOf(prompt, tag) ==
    LET at == {i \in 1..Len(prompt) : prompt[i].tag = tag}
    IN  IF at = {} THEN Text(None) ELSE prompt[CHOOSE i \in at : TRUE].body

\* refine_question, run on session messages `msgs`; `outcome` is what the
\* completion backend does if it is called.
RefineQuestion(msgs, raw_question, num_history, outcome) ==
    IF Len(msgs) < RefineSkipBelow
    THEN [value |-> raw_question, calls |-> << >>, notices |-> << >>]
    ELSE LET hist == TailSlice(msgs, num_history)
             call == CompleteCall("refine_question",
                                  BuildRefinePrompt(raw_question, JsonDumps(hist)),
                                  REFINE_MAX_TOKENS)
         IN  IF outcome.ok
             THEN [value |-> Strip(outcome.out), calls |-> <<call>>, notices |-> << >>]
             ELSE [value |-> raw_question, calls |-> <<call>>,
                   notices |-> << [kind |-> "error",
                                   text |-> "Refine error: " \o outcome.err] >>]

\* get_invoice_answer
GetInvoiceAnswer(question, context_chunks, chat_history, outcome) ==
    LET context_json == JsonDumps(context_chunks)
        history_json == IF chat_history # << >> THEN JsonDumps(chat_history) ELSE Text(None)
        call == CompleteCall("get_invoice_answer",
                             BuildInvoicePrompt(context_json, question, history_json),
                             SUMMARY_MAX_TOKENS)
    IN  IF outcome.ok
        THEN [value |-> Join(outcome.out), calls |-> <<call>>]
        ELSE [value |-> "Error: " \o outcome.err, calls |-> <<call>>]

-----------------------------------------------------------------------------
(* utils/search_utils.py *)

\* float(val) for the values the backend holds in TOTAL_GROSS_WORTH_VALUE,
\* in cents; any other value raises ValueError or TypeError.
FloatOf == ("1234.5" :> 123450) @@ ("7" :> 700) @@ ("1000000" :> 100000000)

Pad(n, width) ==
    IF width = 3 /\ n < 10 THEN "00" \o ToString(n)
    ELSE IF (width = 3 /\ n < 100) \/ (width = 2 /\ n < 10) THEN "0" \o ToString(n)
    ELSE ToString(n)

RECURSIVE Thousands(_)
Thousands(n) ==
    IF n < 1000 THEN ToString(n)
    ELSE Thousands(n \div 1000) \o "," \o Pad(n % 1000, 3)

\* _fmt_currency(val), multiplier 1.0
FmtCurrency(val) ==
    IF val \in DOMAIN FloatOf
    THEN LET amount == FloatOf[val]
         IN  "$" \o Thousands(amount \div 100) \o "." \o Pad(amount % 100, 2)
    ELSE val

\* Columns the gateway projects, and the Passage key each is copied to
AttributeColumns ==
    << "FILE_NAME", "SELLER_NAME_VALUE", "CLIENT_NAME_VALUE",
       "TOTAL_GROSS_WORTH_VALUE", "ISSUE_DATE_VALUE" >>

PassageKeys == {"file", "chunk", "seller", "client", "total_gross", "issue_date"}

\* The search backend: a black box holding the ranked records `rows` for the
\* query; it answers a request with the first `limit` of them, or throws.
BackendSearch(backend, request) ==
    SubSeq(backend.rows, 1, Min(request.limit, Len(backend.rows)))

SearchReturn(value, shown, sent) ==
    [raised |-> "none", value |-> value, notices |-> shown, searches |-> sent]

SearchRaise(exc, shown, sent) ==
    [raised |-> exc, value |-> << >>, notices |-> shown, searches |-> sent]

\* query_cortex_search_service, all six parameters bound
QueryCortexSearchService(query, service, limit, metadata, min_total_gross, max_total_gross, backend) ==
    IF Falsy(service)
    THEN SearchReturn(<< >>, << [kind |-> "warning",
                                 text |-> "Please select a search service."] >>, << >>)
    ELSE
    LET found == {i \in 1..Len(metadata) : metadata[i].name = service}
        idx == IF found = {} THEN 0 ELSE CHOOSE i \in found : \A j \in found : i <= j
    IN  IF idx = 0 \/ Falsy(metadata[idx].search_column)
        THEN SearchReturn(<< >>,
                 << [kind |-> "error",
                     text |-> "Invalid service metadata for '" \o service \o "'."] >>, << >>)
        ELSE
        LET search_col == metadata[idx].search_column
            request == [query |-> query,
                        columns |-> <<search_col>> \o AttributeColumns,
                        filter |-> [gte |-> min_total_gross, lte |-> max_total_gross],
                        limit |-> limit,
                        group_by_field |-> "FILE_NAME"]
        IN  IF backend.fails
            THEN SearchReturn(<< >>,
                     << [kind |-> "error", text |-> "Search failed: " \o backend.err] >>,
                     <<request>>)
            ELSE
            LET results == BackendSearch(backend, request)
                complete(rec) == \A i \in 1..Len(request.columns) :
                                     request.columns[i] \in DOMAIN rec
            IN  IF \E i \in 1..Len(results) : ~complete(results[i])
                THEN SearchRaise("KeyError", << >>, <<request>>)
                ELSE SearchReturn(
                         [i \in 1..Len(results) |->
                             [file |-> results[i]["FILE_NAME"],
                              chunk |-> results[i][search_col],
                              seller |-> results[i]["SELLER_NAME_VALUE"],
                              client |-> results[i]["CLIENT_NAME_VALUE"],
                              total_gross |->
                                  FmtCurrency(results[i]["TOTAL_GROSS_WORTH_VALUE"]),
                              issue_date |-> results[i]["ISSUE_DATE_VALUE"]]],
                         << >>, <<request>>)

\* Parameters of query_cortex_search_service, none of which has a default
SearchParams ==
    << "query", "service", "limit", "metadata", "min_total_gross", "max_total_gross" >>

-----------------------------------------------------------------------------
(* The platform the application runs against *)

\* Result of load_service_metadata(): one service with a search column and one
\* whose DESC returned no row.
ServiceMetadata ==
    << [name |-> "INVOICE_SEARCH", search_column |-> "CHUNK"],
       [name |-> "EMPTY_DESC_SVC", search_column |-> None] >>

Row(file, gross) ==
    ("CHUNK" :> "text of " \o file) @@ ("FILE_NAME" :> file)
    @@ ("SELLER_NAME_VALUE" :> "Seller") @@ ("CLIENT_NAME_VALUE" :> "Client")
    @@ ("TOTAL_GROSS_WORTH_VALUE" :> gross) @@ ("ISSUE_DATE_VALUE" :> "2024-01-31")

Without(rec, col) == [c \in DOMAIN rec \ {col} |-> rec[c]]

\* Records the backend may hold: complete ones (numeric, non-numeric and null
\* gross worth) and ones that lack a projected column.
BackendRows ==
    { Row("a.pdf", "1234.5"), Row("b.pdf", "abc"), Row("c.pdf", None),
      Without(Row("d.pdf", "7"), "SELLER_NAME_VALUE"),
      Without(Row("e.pdf", "7"), "CHUNK"),
      Without(Row("f.pdf", "7"), "TOTAL_GROSS_WORTH_VALUE") }

SeqsUpTo(S, n) == UNION {[1..k -> S] : k \in 0..n}

Backends ==
    {[fails |-> TRUE, err |-> "503", rows |-> << >>]}
    \cup {[fails |-> FALSE, err |-> "", rows |-> r] : r \in SeqsUpTo(BackendRows, MaxRows)}

-----------------------------------------------------------------------------
(* streamlit_app.py *)

Stages == << "AwaitingInput", "Refining", "Retrieving", "Synthesizing", "Rendered" >>

\* A UI event: a widget edit, a click on "Clear conversation", or a question
\* submitted in st.chat_input.  st.sidebar.button and st.chat_input give a value
\* only in the run their own event triggered.
NoEvent == [kind |-> "none", user_q |-> None]

\* A run makes at most two Complete calls (refine_question, get_invoice_answer)
BackendUp == <<FALSE, FALSE>>
BackendStates == [1..2 -> BOOLEAN]

ServiceNames == {ServiceMetadata[i].name : i \in 1..Len(ServiceMetadata)}

\* Values the user gives the two number inputs, within their min_value..max_value
ChunkChoices == {ChunksMin, ChunksDefault, ChunksMax}
HistoryChoices == (HistoryMin..Min(MaxHistory, HistoryMax)) \cup {HistoryDefault}

WidgetValues ==
    [selected_service : ServiceNames,
     num_retrieved_chunks : ChunkChoices,
     num_chat_messages : HistoryChoices]

\* The call main_chat_loop makes: one positional argument and three keywords
SearchCallSite == [positional |-> 1, keywords |-> {"service", "limit", "metadata"}]

\* Parameters a Python call leaves unbound (a TypeError when not empty)
MissingArguments(params, call) ==
    {params[i] : i \in (call.positional + 1)..Len(params)} \ call.keywords

Init ==
    /\ messages = << >>
    /\ clear_conversation = FALSE
    /\ widgets = [selected_service |-> ServiceMetadata[1].name,
                  num_retrieved_chunks |-> ChunksDefault,
                  num_chat_messages |-> HistoryDefault]
    /\ pc = "rest"
    /\ event = NoEvent
    /\ rewritten_q = None
    /\ stages = << >>
    /\ exception = "none"
    /\ notices = << >>
    /\ completeCalls = << >>
    /\ completeFails = BackendUp
    /\ gatewayCalls = << >>
    /\ last_context_json = Text(None)
    /\ lenAtRunStart = 0
    /\ gwIn = [service |-> None, limit |-> ChunksMin, backend |-> [fails |-> TRUE, err |-> "503", rows |-> << >>]]
    /\ gwOut = [returned |-> FALSE, result |-> SearchReturn(<< >>, << >>, << >>)]

\* A UI event starts a script run of main()
StartRun(ev, w, fails) ==
    /\ pc = "rest"
    /\ completeFails' = fails
    /\ event' = ev
    /\ widgets' = w
    /\ pc' = "init_messages"
    /\ rewritten_q' = None
    /\ stages' = << >>
    /\ exception' = "none"
    /\ notices' = << >>
    /\ completeCalls' = << >>
    /\ gatewayCalls' = << >>
    /\ lenAtRunStart' = Len(messages)
    /\ UNCHANGED <<messages, clear_conversation, last_context_json, gwVars>>

EditWidget ==
    \E w \in WidgetValues :
        /\ Cardinality({f \in DOMAIN w : w[f] # widgets[f]}) = 1
        /\ StartRun([kind |-> "widget", user_q |-> None], w, BackendUp)

ClickClear == StartRun([kind |-> "button", user_q |-> None], widgets, BackendUp)

SubmitQuestion ==
    \E q \in Questions, fails \in BackendStates :
        /\ Len(messages) < MaxTurns
        /\ StartRun([kind |-> "chat_input", user_q |-> q], widgets, fails)

\* init_messages
InitMessagesKeepsFlag ==
    /\ pc = "init_messages"
    /\ messages' = IF clear_conversation THEN << >> ELSE messages
    /\ pc' = "load_config"
    /\ UNCHANGED <<clear_conversation, widgets, event, rewritten_q, stages, exception,
                   notices, completeCalls, completeFails, gatewayCalls, last_context_json, lenAtRunStart, gwVars>>

InitMessages ==
    /\ pc = "init_messages"
    /\ IF clear_conversation
       THEN messages' = << >> /\ clear_conversation' = FALSE
       ELSE UNCHANGED <<messages, clear_conversation>>
    /\ pc' = "load_config"
    /\ UNCHANGED <<widgets, event, rewritten_q, stages, exception, notices,
                   completeCalls, completeFails, gatewayCalls, last_context_json, lenAtRunStart, gwVars>>

\* load_config
LoadConfig ==
    /\ pc = "load_config"
    /\ clear_conversation' = IF event.kind = "button" THEN TRUE ELSE clear_conversation
    /\ pc' = "main_chat_loop"
    /\ UNCHANGED <<messages, widgets, event, rewritten_q, stages, exception, notices,
                   completeCalls, completeFails, gatewayCalls, last_context_json, lenAtRunStart, gwVars>>

\* messages.append({"role": "user", "content": user_q})
SaveRawInputInFront(msgs, user_q) == <<Turn("user", user_q)>> \o msgs
SaveRawInput(msgs, user_q) == Append(msgs, Turn("user", user_q))

\* main_chat_loop up to the call of refine_question
ChatInput ==
    /\ pc = "main_chat_loop"
    /\ IF event.user_q = None
       THEN /\ pc' = "rest"
            /\ stages' = <<Stages[1]>>
            /\ UNCHANGED messages
       ELSE /\ messages' = SaveRawInput(messages, event.user_q)
            /\ pc' = "refine_question"
            /\ stages' = <<Stages[1], Stages[2]>>
    /\ UNCHANGED <<clear_conversation, widgets, event, rewritten_q, exception, notices,
                   completeCalls, completeFails, gatewayCalls, last_context_json, lenAtRunStart, gwVars>>

\* What the completion backend may do on the run's next Complete call
OutcomesNow(outcomes) ==
    {o \in outcomes : o.ok = ~completeFails[Len(completeCalls) + 1]}

\* rewritten_q = refine_question(...)
Refine ==
    /\ pc = "refine_question"
    /\ \E outcome \in OutcomesNow(RefineOutcomes) :
         LET r == RefineQuestion(messages, event.user_q, widgets.num_chat_messages, outcome)
         IN  /\ rewritten_q' = r.value
             /\ completeCalls' = completeCalls \o r.calls
             /\ notices' = notices \o r.notices
    /\ pc' = "query_cortex_search_service"
    /\ stages' = Append(stages, Stages[3])
    /\ UNCHANGED <<messages, clear_conversation, widgets, event, exception,
                   completeFails, gatewayCalls, last_context_json, lenAtRunStart, gwVars>>

\* main_chat_loop from the call of query_cortex_search_service to its end (the
\* PDF preview of each result aside).  An uncaught exception ends the script
\* run; session state keeps what was written.
RetrieveAndAnswer ==
    /\ pc = "query_cortex_search_service"
    /\ pc' = "rest"
    /\ LET missing == MissingArguments(SearchParams, SearchCallSite)
           call == [query |-> rewritten_q, service |-> widgets.selected_service,
                    limit |-> widgets.num_retrieved_chunks, missing |-> missing]
       IN  /\ gatewayCalls' = Append(gatewayCalls, call)
           /\ IF missing # {}
              THEN /\ exception' = "TypeError"
                   /\ UNCHANGED <<messages, stages, notices, completeCalls,
                                   last_context_json>>
              ELSE \E backend \in Backends, outcome \in OutcomesNow(AnswerOutcomes) :
                     LET s == QueryCortexSearchService(
                                  rewritten_q, widgets.selected_service,
                                  widgets.num_retrieved_chunks, ServiceMetadata,
                                  None, None, backend)
                         a == GetInvoiceAnswer(
                                  rewritten_q, s.value,
                                  TailSlice(messages, widgets.num_chat_messages), outcome)
                     IN  IF s.raised # "none"
                         THEN /\ exception' = s.raised
                              /\ notices' = notices \o s.notices
                              /\ UNCHANGED <<messages, stages, completeCalls,
                                              last_context_json>>
                         ELSE /\ exception' = "none"
                              /\ last_context_json' = JsonDumps(s.value)
                              /\ messages' = Append(messages, Turn("assistant", a.value))
                              /\ completeCalls' = completeCalls \o a.calls
                              /\ stages' = stages \o <<Stages[4], Stages[5]>>
                              /\ notices' = notices \o s.notices \o
                                   (IF s.value = << >>
                                    THEN << [kind |-> "info",
                                             text |-> "No search results found."] >>
                                    ELSE << >>)
    /\ UNCHANGED <<clear_conversation, widgets, event, rewritten_q, completeFails,
                   lenAtRunStart, gwVars>>

Next ==
    \/ EditWidget
    \/ ClickClear
    \/ SubmitQuestion
    \/ InitMessages
    \/ LoadConfig
    \/ ChatInput
    \/ Refine
    \/ RetrieveAndAnswer

Spec == Init /\ [][Next]_vars

-----------------------------------------------------------------------------
(* query_cortex_search_service called with every parameter bound *)

GatewayServices == {None, "", "UNKNOWN_SVC"} \cup ServiceNames

InitGateway ==
    /\ messages = << >>
    /\ clear_conversation = FALSE
    /\ widgets = [selected_service |-> ServiceMetadata[1].name,
                  num_retrieved_chunks |-> ChunksDefault,
                  num_chat_messages |-> HistoryDefault]
    /\ pc = "rest"
    /\ event = NoEvent
    /\ rewritten_q = None
    /\ stages = << >>
    /\ exception = "none"
    /\ notices = << >>
    /\ completeCalls = << >>
    /\ completeFails = BackendUp
    /\ gatewayCalls = << >>
    /\ last_context_json = Text(None)
    /\ lenAtRunStart = 0
    /\ gwIn \in [service : GatewayServices, limit : ChunksMin..ChunksMax, backend : Backends]
    /\ gwOut = [returned |-> FALSE, result |-> SearchReturn(<< >>, << >>, << >>)]

GatewayCall ==
    /\ ~gwOut.returned
    /\ gwOut' = [returned |-> TRUE,
                 result |-> QueryCortexSearchService(
                                "q1", gwIn.service, gwIn.limit, ServiceMetadata,
                                0, 100000, gwIn.backend)]
    /\ UNCHANGED <<gwIn, appVars>>

NextGateway == GatewayCall

SpecGateway == InitGateway /\ [][NextGateway]_vars

-----------------------------------------------------------------------------
(* Claims *)

TurnEnded == pc = "rest" /\ event.kind = "chat_input"

LastTurn == messages[Len(messages)]

\* C1: every submitted turn runs AwaitingInput, Refining, Retrieving,
\* Synthesizing, Rendered in that order, no stage failure halts it, and it
\* ends with an assistant Turn appended.
C1_TurnReachesRendered ==
    TurnEnded =>
        /\ stages = Stages
        /\ exception = "none"
        /\ messages # << >>
        /\ LastTurn.role = "assistant"

\* C2: at rest between turns the Conversation length is even, each turn
\* having appended a user Turn followed by an assistant Turn.
C2_EvenAtRest ==
    pc = "rest" =>
        /\ Len(messages) % 2 = 0
        /\ \A i \in 1..Len(messages) :
               messages[i].role = (IF i % 2 = 1 THEN "user" ELSE "assistant")

\* C3: with fewer than 2 Turns before the submission, refine_question returns
\* the raw question unchanged and makes no completion call.
C3_NoRefinementBelowTwoPriorTurns ==
    (pc = "query_cortex_search_service" /\ Len(messages) - 1 < 2) =>
        /\ rewritten_q = event.user_q
        /\ completeCalls = << >>

\* C4: a reset empties the Conversation in one step, only init_messages ever
\* removes Turns and only when it observes the flag, it clears the flag as it
\* observes it, a run that finds the flag clear removes nothing, and only a
\* click on "Clear conversation" raises the flag, after init_messages has run.
C4_ResetClearsOnce ==
    [][ /\ (pc = "init_messages" /\ clear_conversation)
            => (messages' = << >> /\ ~clear_conversation')
        /\ (pc = "init_messages" /\ ~clear_conversation)
            => (messages' = messages /\ ~clear_conversation')
        /\ Len(messages') < Len(messages)
            => (messages' = << >> /\ pc = "init_messages" /\ clear_conversation)
        /\ (clear_conversation' /\ ~clear_conversation)
            => (pc = "load_config" /\ event.kind = "button")
        /\ (pc = "load_config" /\ event.kind = "button") => clear_conversation'
      ]_vars

\* C4 witness: a run that found the flag set on a Conversation of N > 0 Turns
\* has emptied it and cleared the flag.
C4_Witness ==
    /\ pc = "load_config"
    /\ lenAtRunStart > 0
    /\ messages = << >>
    /\ ~clear_conversation

\* C5: query_cortex_search_service never raises to its caller.
C5_GatewayNeverRaises ==
    gatewayCalls # << >> => exception = "none"

\* The run's Complete call made by get_invoice_answer comes after those of
\* refine_question.
RefineCalls == {i \in 1..Len(completeCalls) : completeCalls[i].caller = "refine_question"}
AnswerCalls == {i \in 1..Len(completeCalls) : completeCalls[i].caller = "get_invoice_answer"}

\* C6: when the completion backend throws during answer synthesis, the turn
\* ends with an assistant Turn whose content begins with "Error: ".
C6_SynthesisErrorBecomesAnswer ==
    (TurnEnded /\ completeFails[Cardinality(RefineCalls) + 1]) =>
        /\ messages # << >>
        /\ LastTurn.role = "assistant"
        /\ LastTurn.content \in {"Error: " \o o.err : o \in {x \in AnswerOutcomes : ~x.ok}}

\* C7: when the completion backend throws during refinement, the turn goes
\* on: a notice is shown, and the raw question is the query sent to the
\* Search Gateway and the question sent to the Synthesizer.
C7_RefineFailureFallsBackToRaw ==
    (TurnEnded /\ RefineCalls # {} /\ completeFails[1]) =>
        /\ rewritten_q = event.user_q
        /\ \E i \in 1..Len(notices) : notices[i].kind = "error"
        /\ \E i \in 1..Len(gatewayCalls) : gatewayCalls[i].query = event.user_q
        /\ \E i \in AnswerCalls :
               SectionOf(completeCalls[i].prompt, "QUESTION") = Text(event.user_q)

\* C8: for a valid service and a limit in 1..10, the gateway returns at most
\* limit Passages, each with every configured key, whatever fields the
\* backend's records carry.
C8_PassagesBoundedAndComplete ==
    (gwOut.returned /\ gwIn.service = ServiceMetadata[1].name /\ ~gwIn.backend.fails) =>
        /\ gwOut.result.raised = "none"
        /\ Len(gwOut.result.value) <= gwIn.limit
        /\ \A i \in 1..Len(gwOut.result.value) :
               DOMAIN gwOut.result.value[i] = PassageKeys

\* C9: every step leaves the Conversation unchanged, appends one Turn at its
\* end (main_chat_loop only), or replaces it by the empty list (init_messages
\* only).
C9_AppendOnly ==
    [][ \/ messages' = messages
        \/ /\ Len(messages') = Len(messages) + 1
           /\ SubSeq(messages', 1, Len(messages)) = messages
           /\ messages'[Len(messages')].role \in {"user", "assistant"}
           /\ pc \in {"main_chat_loop", "query_cortex_search_service"}
        \/ /\ messages' = << >>
           /\ pc = "init_messages"
      ]_vars

\* C9 witness: a user Turn has just been appended to a Conversation that
\* already held Turns.
C9_Witness ==
    /\ pc = "refine_question"
    /\ Len(messages) >= 2
    /\ messages[1].content # messages[Len(messages)].content

\* The Conversation as it was once the current user Turn had been appended
UpToUserTurn ==
    IF stages # << >> /\ stages[Len(stages)] = "Rendered"
    THEN SubSeq(messages, 1, Len(messages) - 1)
    ELSE messages

====
